---------------------------- MODULE Spec2Model ----------------------------
(***************************************************************************)
(* TrustLayer AI proxy: the reversible PII tokenization engine             *)
(* (src/app/redactor.py) and the request pipeline around it                *)
(* (src/app/main.py).                                                      *)
(*                                                                         *)
(* A text is a sequence of tokens (a token stands for one character or one *)
(* word of the Python string); a placeholder is one token, spelled as the  *)
(* code spells it.  The SessionStore is the Redis instance the redactor    *)
(* talks to: one counter key per (session, entity type) and one mapping    *)
(* key per (session, placeholder), each store command one atomic step.     *)
(***************************************************************************)
EXTENDS Integers, Sequences, FiniteSets, TLC

VARIABLES
    pc,          \* pc[w]: where worker w stands
    call,        \* call[w]: the frame of w's redact_text / restore call
    counter,     \* counter[sid][type]: value of session:{sid}:count:{type}, 0 = no key
    counterTTL,  \* counterTTL[sid][type]: the counter key carries a TTL
    mapStore,    \* session:{sid}:mapping:{placeholder} keys: <<sid, ph>> -> value
    clean,       \* the frame of a cleanup_session call
    everLog,     \* history: everLog[sid][type], every INCR result in the order served
    epochStart,  \* history: length of everLog[sid][type] when the counter key last vanished
    held,        \* history: held[w], the <<type, placeholder>> w's call got from living counters
    gw,          \* the request proxy_request is handling
    inj          \* the last check_prompt_injection call: its arguments and its result

vars == <<pc, call, counter, counterTTL, mapStore, clean, everLog, epochStart, held, gw, inj>>

---------------------------------------------------------------------------
(* Bounds *)

MaxIncr == 3
MaxLen == 3
MaxSpans == 2

Workers == {"w1", "w2"}
Sessions == {"s1", "s1:x", "s2"}
EntityTypes == {"PERSON", "EMAIL_ADDRESS"}

---------------------------------------------------------------------------
(* Text helpers (Python str operations on token sequences) *)

Min(a, b) == IF a < b THEN a ELSE b

\* s[:n]
SliceTo(s, n) == SubSeq(s, 1, Min(n, Len(s)))

\* s[n:]
SliceFrom(s, n) == IF n >= Len(s) THEN <<>> ELSE SubSeq(s, n + 1, Len(s))

\* s[a:b]
Slice(s, a, b) == IF a >= Min(b, Len(s)) THEN <<>> ELSE SubSeq(s, a + 1, Min(b, Len(s)))

IsSpace(tok) == tok \in {" ", "\n"}

\* the whitespace test left out
StripNever(text) == FALSE

\* not text.strip()
StripEmpty(text) == \A i \in 1..Len(text) : IsSpace(text[i])

\* a placeholder that leaves the counter out
PlaceholderNoCount(entity_type, count) == "[CONFIDENTIAL_" \o entity_type \o "]"

\* f"[CONFIDENTIAL_{entity_type}_{count}]"
Placeholder(entity_type, count) ==
    "[CONFIDENTIAL_" \o entity_type \o "_" \o ToString(count) \o "]"

\* str.replace(old, new) where old is one token: every occurrence is replaced
RECURSIVE Replace(_, _, _)
Replace(text, old, new) ==
    IF text = <<>> THEN <<>>
    ELSE (IF Head(text) = old THEN new ELSE <<Head(text)>>) \o Replace(Tail(text), old, new)

\* list.sort(key=lambda x: x.start, reverse=True): stable, equal starts keep their order
RECURSIVE InsertByStartDesc(_, _)
InsertByStartDesc(sorted, r) ==
    IF sorted = <<>> THEN <<r>>
    ELSE IF Head(sorted).start >= r.start
         THEN <<Head(sorted)>> \o InsertByStartDesc(Tail(sorted), r)
         ELSE <<r>> \o sorted

\* the results left in the order the analyzer gave them
SortOmitted(results) == results

RECURSIVE SortByStartDesc(_)
SortByStartDesc(results) ==
    IF results = <<>> THEN <<>>
    ELSE InsertByStartDesc(SortByStartDesc(SubSeq(results, 1, Len(results) - 1)),
                           results[Len(results)])

---------------------------------------------------------------------------
(* The Detector: one span per PII token, in the order of the pattern table *)

PersonTokens == {"John", "Mary"}
EmailTokens == {"j@x"}

PatternOrder == <<"EMAIL_ADDRESS", "PERSON">>

Matches(entity_type, tok) ==
    CASE entity_type = "EMAIL_ADDRESS" -> tok \in EmailTokens
      [] entity_type = "PERSON" -> tok \in PersonTokens
      [] OTHER -> FALSE

\* the matches of one pattern from offset i on (pattern.finditer)
RECURSIVE FindIter(_, _, _)
FindIter(entity_type, text, i) ==
    IF i > Len(text) THEN <<>>
    ELSE (IF Matches(entity_type, text[i])
          THEN <<[entity_type |-> entity_type, start |-> i - 1, end |-> i]>>
          ELSE <<>>) \o FindIter(entity_type, text, i + 1)

RECURSIVE AnalyzeFrom(_, _, _)
AnalyzeFrom(k, text, entities) ==
    IF k > Len(PatternOrder) THEN <<>>
    ELSE (IF entities # {} /\ PatternOrder[k] \notin entities
          THEN <<>>
          ELSE FindIter(PatternOrder[k], text, 1)) \o AnalyzeFrom(k + 1, text, entities)

\* BasicPIIDetector.analyze(text, entities)
Analyze(text, entities) == AnalyzeFrom(1, text, entities)

---------------------------------------------------------------------------
(* dict operations on an insertion-ordered mapping: a sequence of <<key, value>> *)

Keys(mapping) == {mapping[i][1] : i \in 1..Len(mapping)}

\* mapping[key] = value: a new key goes last, an old key keeps its place
DictSet(mapping, key, value) ==
    IF key \in Keys(mapping)
    THEN [i \in 1..Len(mapping) |->
            IF mapping[i][1] = key THEN <<key, value>> ELSE mapping[i]]
    ELSE Append(mapping, <<key, value>>)

DictGet(mapping, key) == (CHOOSE i \in 1..Len(mapping) : mapping[i][1] = key)

---------------------------------------------------------------------------
(* Worker frames *)

NoCall == [sid |-> "", text |-> <<>>, results |-> <<>>, i |-> 0, redacted |-> <<>>,
           mapping |-> <<>>, count |-> 0, raised |-> FALSE,
           via |-> "", restored |-> <<>>, missed |-> {}, restoreRaised |-> FALSE,
           again |-> <<>>, analyzerRaised |-> FALSE, entities |-> {}]

Redacting == {"incr", "expire", "setex"}

\* INCR results a call in flight will still ask for
Pending(w) ==
    CASE pc[w] = "incr" -> Len(call[w].results) - call[w].i + 1
      [] pc[w] \in {"expire", "setex"} -> Len(call[w].results) - call[w].i
      [] OTHER -> 0

RECURSIVE SumPending(_)
SumPending(ws) ==
    IF ws = {} THEN 0
    ELSE LET w == CHOOSE x \in ws : TRUE IN Pending(w) + SumPending(ws \ {w})

RECURSIVE SumLen(_)
SumLen(ks) ==
    IF ks = {} THEN 0
    ELSE LET k == CHOOSE x \in ks : TRUE IN Len(everLog[k[1]][k[2]]) + SumLen(ks \ {k})

\* INCR commands served so far
NumIncr == SumLen(Sessions \X EntityTypes)

Budget == MaxIncr - NumIncr - SumPending(Workers)

\* the INCR results of the living counter key, in the order served
Issued(sid, t) == SubSeq(everLog[sid][t], epochStart[sid][t] + 1, Len(everLog[sid][t]))

NoClean == [pc |-> "idle", sid |-> "", counters |-> {}, mappings |-> {}, raised |-> FALSE]

NoInjCheck == [called |-> FALSE, text |-> <<>>, patterns |-> <<>>, result |-> FALSE]

NoPayload == [ctype |-> "", shape |-> "empty", model |-> "", messages |-> <<>>,
              prompt |-> <<>>, raw |-> <<>>, files |-> <<>>, fields |-> <<>>]

NoContent == [kind |-> "none", json |-> NoPayload, text |-> <<>>]

NoRequest == [stage |-> "idle", host |-> "", method |-> "", payload |-> NoPayload,
              status |-> 0, parsed |-> FALSE, scanned |-> FALSE, extracted |-> <<>>,
              content |-> NoContent, mapping |-> <<>>,
              sent |-> FALSE, sentBody |-> NoContent, error |-> "",
              response |-> NoContent, returned |-> NoContent]

Init ==
    /\ pc = [w \in Workers |-> "idle"]
    /\ call = [w \in Workers |-> NoCall]
    /\ counter = [s \in Sessions |-> [t \in EntityTypes |-> 0]]
    /\ counterTTL = [s \in Sessions |-> [t \in EntityTypes |-> FALSE]]
    /\ mapStore = <<>>
    /\ clean = NoClean
    /\ everLog = [s \in Sessions |-> [t \in EntityTypes |-> <<>>]]
    /\ epochStart = [s \in Sessions |-> [t \in EntityTypes |-> 0]]
    /\ held = [w \in Workers |-> {}]
    /\ gw = NoRequest
    /\ inj = NoInjCheck

---------------------------------------------------------------------------
(* PII_Redactor.redact_text, one store command per step *)

\* lines 139-157: the early returns, the analysis and the sort
RedactBegin(w, sid, text, results) ==
    /\ pc[w] = "idle"
    /\ Len(results) <= Budget
    /\ IF StripEmpty(text) \/ results = <<>>
       THEN /\ pc' = [pc EXCEPT ![w] = "redacted"]
            /\ call' = [call EXCEPT ![w] = [NoCall EXCEPT !.sid = sid, !.text = text,
                                                          !.redacted = text]]
       ELSE /\ pc' = [pc EXCEPT ![w] = "incr"]
            /\ call' = [call EXCEPT ![w] = [NoCall EXCEPT !.sid = sid, !.text = text,
                                                          !.results = SortByStartDesc(results),
                                                          !.i = 1, !.redacted = text]]
    /\ held' = [held EXCEPT ![w] = {}]
    /\ UNCHANGED <<counter, counterTTL, mapStore, clean, everLog, epochStart>>

\* an except branch that gives back nothing
ExceptResultEmpty(text) == [redacted |-> <<>>, mapping |-> <<>>]

\* lines 180-182: return text, {}
ExceptResult(text) == [redacted |-> text, mapping |-> <<>>]

\* lines 139-148 and 180-182: self.analyzer.analyze raises; redact_text returns
\* (text, {}) before any store command
AnalyzeRaise(w, sid, text) ==
    /\ pc[w] = "idle"
    /\ pc' = [pc EXCEPT ![w] = "redacted"]
    /\ call' = [call EXCEPT ![w] =
                  IF StripEmpty(text)
                  THEN [NoCall EXCEPT !.sid = sid, !.text = text, !.redacted = text]
                  ELSE [NoCall EXCEPT !.sid = sid, !.text = text,
                                      !.redacted = ExceptResult(text).redacted,
                                      !.mapping = ExceptResult(text).mapping,
                                      !.raised = TRUE, !.analyzerRaised = TRUE]]
    /\ held' = [held EXCEPT ![w] = {}]
    /\ UNCHANGED <<counter, counterTTL, mapStore, clean, everLog, epochStart>>

\* a read that initialises the key and never increments it
IncrLost(old) == IF old = 0 THEN 1 ELSE old

\* the value INCR stores and returns
IncrValue(old) == old + 1

\* line 124: count = redis.incr(count_key)
StoreIncr(w) ==
    /\ pc[w] = "incr"
    /\ LET c == call[w]
           t == c.results[c.i].entity_type
           n == IncrValue(counter[c.sid][t])
       IN /\ counter' = [counter EXCEPT ![c.sid][t] = n]
          /\ call' = [call EXCEPT ![w].count = n]
          /\ everLog' = [everLog EXCEPT ![c.sid][t] = Append(@, n)]
          /\ held' = [held EXCEPT ![w] = @ \cup {<<t, Placeholder(t, n)>>}]
    /\ pc' = [pc EXCEPT ![w] = "expire"]
    /\ UNCHANGED <<counterTTL, mapStore, clean, epochStart, gw, inj>>

\* line 125: redis.expire(count_key, session_ttl); no effect on a key that is gone
StoreExpire(w) ==
    /\ pc[w] = "expire"
    /\ LET c == call[w]
           t == c.results[c.i].entity_type
       IN counterTTL' = [counterTTL EXCEPT ![c.sid][t] = (counter[c.sid][t] # 0)]
    /\ pc' = [pc EXCEPT ![w] = "setex"]
    /\ UNCHANGED <<call, counter, mapStore, clean, everLog, epochStart, held, gw, inj>>

\* lines 127-133 and 161-175: setex of the mapping, the splice, mapping[placeholder]
StoreSetex(w) ==
    /\ pc[w] = "setex"
    /\ LET c == call[w]
           r == c.results[c.i]
           entity_value == Slice(c.text, r.start, r.end)
           placeholder == Placeholder(r.entity_type, c.count)
           redacted == SliceTo(c.redacted, r.start) \o <<placeholder>>
                          \o SliceFrom(c.redacted, r.end)
       IN /\ mapStore' = (<<c.sid, placeholder>> :> entity_value) @@ mapStore
          /\ call' = [call EXCEPT ![w].redacted = redacted,
                                  ![w].mapping = DictSet(c.mapping, placeholder, entity_value),
                                  ![w].i = c.i + 1]
          /\ pc' = [pc EXCEPT ![w] = IF c.i = Len(c.results) THEN "redacted" ELSE "incr"]
    /\ UNCHANGED <<counter, counterTTL, clean, everLog, epochStart, held, gw, inj>>

\* lines 180-182: a store command raises; redact_text returns (text, {})
StoreRaise(w) ==
    /\ pc[w] \in Redacting
    /\ pc' = [pc EXCEPT ![w] = "redacted"]
    /\ call' = [call EXCEPT ![w].redacted = ExceptResult(call[w].text).redacted,
                            ![w].mapping = ExceptResult(call[w].text).mapping,
                            ![w].raised = TRUE]
    /\ UNCHANGED <<counter, counterTTL, mapStore, clean, everLog, epochStart, held, gw, inj>>

---------------------------------------------------------------------------
(* The store's own steps: a key whose TTL has run out disappears *)

ExpireCounter(sid, t) ==
    /\ counter[sid][t] # 0
    /\ counterTTL[sid][t]
    /\ counter' = [counter EXCEPT ![sid][t] = 0]
    /\ counterTTL' = [counterTTL EXCEPT ![sid][t] = FALSE]
    /\ epochStart' = [epochStart EXCEPT ![sid][t] = Len(everLog[sid][t])]
    /\ held' = [w \in Workers |->
                  IF call[w].sid = sid THEN {h \in held[w] : h[1] # t} ELSE held[w]]
    /\ UNCHANGED <<pc, call, mapStore, clean, everLog, gw, inj>>

ExpireMapping(key) ==
    /\ key \in DOMAIN mapStore
    /\ mapStore' = [k \in (DOMAIN mapStore) \ {key} |-> mapStore[k]]
    /\ UNCHANGED <<pc, call, counter, counterTTL, clean, everLog, epochStart, held, gw, inj>>

---------------------------------------------------------------------------
(* PII_Redactor.cleanup_session: KEYS, then DEL of what KEYS returned *)

\* a session id split at its ':' characters
SessionSegments(sid) == IF sid = "s1:x" THEN <<"s1", "x">> ELSE <<sid>>

\* f"session:{session_id}:count:{entity_type}", split at ':'
CountKey(sid, entity_type) == <<"session">> \o SessionSegments(sid) \o <<"count", entity_type>>

\* f"session:{session_id}:mapping:{placeholder}", split at ':'
MappingKey(sid, placeholder) ==
    <<"session">> \o SessionSegments(sid) \o <<"mapping", placeholder>>

\* f"session:{session_id}:*" up to its '*', split at ':'
CleanupPattern(sid) == <<"session">> \o SessionSegments(sid)

\* KEYS pattern: '*' stands for any run of characters, ':' included
GlobMatches(prefix, key) ==
    /\ Len(key) > Len(prefix)
    /\ SubSeq(key, 1, Len(prefix)) = prefix

\* lines 246-248: redis.keys(pattern)
CleanupKeys(sid) ==
    /\ clean.pc = "idle"
    /\ LET pattern == CleanupPattern(sid)
           cs == {k \in Sessions \X EntityTypes :
                    counter[k[1]][k[2]] # 0 /\ GlobMatches(pattern, CountKey(k[1], k[2]))}
           ms == {k \in DOMAIN mapStore : GlobMatches(pattern, MappingKey(k[1], k[2]))}
       IN /\ clean' = IF cs = {} /\ ms = {}
                      THEN NoClean
                      ELSE [pc |-> "delete", sid |-> sid, counters |-> cs, mappings |-> ms,
                            raised |-> FALSE]
    /\ UNCHANGED <<pc, call, counter, counterTTL, mapStore, everLog, epochStart, held, gw, inj>>

\* lines 250-252: redis.delete(*keys)
CleanupDelete ==
    /\ clean.pc = "delete"
    /\ LET gone == {k \in clean.counters : counter[k[1]][k[2]] # 0}
       IN /\ counter' = [s \in Sessions |-> [t \in EntityTypes |->
                            IF <<s, t>> \in gone THEN 0 ELSE counter[s][t]]]
          /\ counterTTL' = [s \in Sessions |-> [t \in EntityTypes |->
                            IF <<s, t>> \in gone THEN FALSE ELSE counterTTL[s][t]]]
          /\ epochStart' = [s \in Sessions |-> [t \in EntityTypes |->
                            IF <<s, t>> \in gone THEN Len(everLog[s][t]) ELSE epochStart[s][t]]]
          /\ held' = [w \in Workers |-> {h \in held[w] : <<call[w].sid, h[1]>> \notin gone}]
          /\ mapStore' = [k \in (DOMAIN mapStore) \ clean.mappings |-> mapStore[k]]
    /\ clean' = NoClean
    /\ UNCHANGED <<pc, call, everLog, gw, inj>>

\* lines 254-255: the DEL raises; the error is logged and nothing is deleted
CleanupRaise ==
    /\ clean.pc = "delete"
    /\ clean' = [NoClean EXCEPT !.raised = TRUE]
    /\ UNCHANGED <<pc, call, counter, counterTTL, mapStore, everLog, epochStart, held, gw, inj>>

---------------------------------------------------------------------------
(* Concurrent redaction: every worker is a proxy process calling redact_text *)

ConcTexts == {<<"John">>, <<"Mary">>, <<"John", "j@x">>}

ConcSession == "s1"

ConcCall(w) ==
    /\ pc[w] = "idle"
    /\ \E text \in ConcTexts : RedactBegin(w, ConcSession, text, Analyze(text, EntityTypes))
    /\ UNCHANGED <<gw, inj>>

ConcReturn(w) ==
    /\ pc[w] = "redacted"
    /\ pc' = [pc EXCEPT ![w] = "idle"]
    /\ call' = [call EXCEPT ![w] = NoCall]
    /\ held' = [held EXCEPT ![w] = {}]
    /\ UNCHANGED <<counter, counterTTL, mapStore, clean, everLog, epochStart, gw, inj>>

NextConc ==
    \/ \E w \in Workers : ConcCall(w)
    \/ \E w \in Workers : StoreIncr(w)
    \/ \E w \in Workers : StoreExpire(w)
    \/ \E w \in Workers : StoreSetex(w)
    \/ \E w \in Workers : StoreRaise(w)
    \/ \E w \in Workers : ConcReturn(w)
    \/ \E sid \in Sessions, t \in EntityTypes : ExpireCounter(sid, t)
    \/ \E key \in DOMAIN mapStore : ExpireMapping(key)

SpecConc == Init /\ [][NextConc]_vars

---------------------------------------------------------------------------
(* Claims about concurrent redaction (SpecConc) *)

Range(seq) == {seq[i] : i \in 1..Len(seq)}

\* C2: redact_text calls running concurrently for one session never receive the
\* same placeholder from a living counter key, and the counters that key handed
\* out are exactly 1..k, each once: no collision, no gap.
C2_ConcurrentDistinct ==
    /\ \A w1, w2 \in Workers :
          (w1 # w2 /\ call[w1].sid = call[w2].sid) => held[w1] \cap held[w2] = {}
    /\ \A sid \in Sessions, t \in EntityTypes :
          /\ Range(Issued(sid, t)) = 1..Len(Issued(sid, t))
          /\ Len(Issued(sid, t)) = counter[sid][t]

\* two calls of one session each hold a count of the same type, neither has stored it yet
C2_Witness ==
    /\ \A w \in Workers : pc[w] = "setex" /\ call[w].sid = ConcSession
    /\ \E t \in EntityTypes : \A w \in Workers : \E h \in held[w] : h[1] = t

\* C3 as stated: per session and entity type n starts at 1 and strictly
\* increases over every redact_text call; no (entity_type, n) is issued twice.
C3_NeverReissued ==
    \A sid \in Sessions, t \in EntityTypes :
        LET log == everLog[sid][t]
        IN /\ (log # <<>> => log[1] = 1)
           /\ \A i, j \in 1..Len(log) : i < j => log[i] < log[j]

\* C3 amended: placeholders have the form [CONFIDENTIAL_{TYPE}_{n}], and while
\* the counter key of (session, type) lives n is 1, 2, 3, ... in the order
\* issued, across separate calls; numbering restarts at 1 once the key is gone.
C3_IncreasingWhileKeyLives ==
    /\ \A sid \in Sessions, t \in EntityTypes :
          \A i \in 1..Len(Issued(sid, t)) : Issued(sid, t)[i] = i
    /\ \A w \in Workers : \A h \in held[w] :
          \E n \in 1..MaxIncr : h[2] = "[CONFIDENTIAL_" \o h[1] \o "_" \o ToString(n) \o "]"
    /\ \A w \in Workers : \A i \in 1..Len(call[w].mapping) :
          \E t \in EntityTypes, n \in 1..MaxIncr :
              call[w].mapping[i][1] = "[CONFIDENTIAL_" \o t \o "_" \o ToString(n) \o "]"

\* a second call got the next number of a counter key a returned call had used
C3_Witness ==
    \E w \in Workers, t \in EntityTypes :
        /\ pc[w] = "redacted"
        /\ Len(call[w].results) = 1
        /\ Len(Issued(ConcSession, t)) = 2
        /\ <<t, Placeholder(t, 2)>> \in held[w]

---------------------------------------------------------------------------
(* Restoration: PII_Redactor.restore_pii_text and PII_Redactor.restore_pii *)

\* redis.get(mapping_key): <<>> stands for None
StoreGet(sid, placeholder) ==
    IF <<sid, placeholder>> \in DOMAIN mapStore THEN mapStore[<<sid, placeholder>>] ELSE <<>>

\* lines 229-233: get and replace, placeholder by placeholder
RECURSIVE RestoreLoop(_, _, _)
RestoreLoop(text, mapping, sid) ==
    IF mapping = <<>> THEN text
    ELSE LET original_value == StoreGet(sid, Head(mapping)[1])
         IN RestoreLoop(IF original_value # <<>>
                        THEN Replace(text, Head(mapping)[1], original_value)
                        ELSE text,
                        Tail(mapping), sid)

\* restore_pii_text(text, mapping, session_id)
RestorePiiText(text, mapping, sid) ==
    IF mapping = <<>> \/ text = <<>> THEN text ELSE RestoreLoop(text, mapping, sid)

\* lines 196-201: session_mappings, the placeholders of mapping found in the store
RECURSIVE SessionMappings(_, _)
SessionMappings(mapping, sid) ==
    IF mapping = <<>> THEN <<>>
    ELSE (IF StoreGet(sid, Head(mapping)[1]) # <<>>
          THEN <<<<Head(mapping)[1], StoreGet(sid, Head(mapping)[1])>>>>
          ELSE <<>>) \o SessionMappings(Tail(mapping), sid)

\* lines 204-206
RECURSIVE ReplaceAll(_, _)
ReplaceAll(text, session_mappings) ==
    IF session_mappings = <<>> THEN text
    ELSE ReplaceAll(Replace(text, Head(session_mappings)[1], Head(session_mappings)[2]),
                    Tail(session_mappings))

\* characters json.dumps escapes inside a string, and their escaped spelling
JsonEscape(tok) == IF tok = "\n" THEN "\\n" ELSE tok

JsonUnescape(tok) == IF tok = "\\n" THEN "\n" ELSE tok

\* json.dumps of a document whose string holds text: the characters of the string
JsonDumps(text) == [i \in 1..Len(text) |-> JsonEscape(text[i])]

\* json.loads raises on a raw control character inside a string
JsonLoadsRaises(str) == \E i \in 1..Len(str) : str[i] = "\n"

JsonLoads(str) == [i \in 1..Len(str) |-> JsonUnescape(str[i])]

\* restore_pii(response_data, mapping, session_id); data is a str or a JSON document
RestorePii(is_str, data, mapping, sid) ==
    IF mapping = <<>> THEN data
    ELSE LET response_str == IF is_str THEN data ELSE JsonDumps(data)
             restored_text == ReplaceAll(response_str, SessionMappings(mapping, sid))
         IN IF is_str THEN restored_text
            ELSE IF JsonLoadsRaises(restored_text) THEN data
            ELSE JsonLoads(restored_text)

RestoreVia == {"restore_pii_text", "restore_pii_str", "restore_pii_json"}

RestoreResult(via, data, mapping, sid) ==
    CASE via = "restore_pii_text" -> RestorePiiText(data, mapping, sid)
      [] via = "restore_pii_str" -> RestorePii(TRUE, data, mapping, sid)
      [] via = "restore_pii_json" -> RestorePii(FALSE, data, mapping, sid)

\* the caller hands the redacted text (or a document holding it) back for restoration
Restore(w, via) ==
    /\ pc[w] = "redacted"
    /\ pc' = [pc EXCEPT ![w] = "restored"]
    /\ LET c == call[w]
       IN call' = [call EXCEPT
                     ![w].via = via,
                     ![w].restored = RestoreResult(via, c.redacted, c.mapping, c.sid),
                     ![w].missed = {ph \in Keys(c.mapping) : StoreGet(c.sid, ph) = <<>>}]
    /\ UNCHANGED <<counter, counterTTL, mapStore, clean, everLog, epochStart, held, gw, inj>>

\* lines 214-216 and 237-239: a redis.get raises; the input comes back unrestored
RestoreRaise(w, via) ==
    /\ pc[w] = "redacted"
    /\ call[w].mapping # <<>>
    /\ pc' = [pc EXCEPT ![w] = "restored"]
    /\ call' = [call EXCEPT ![w].via = via, ![w].restored = call[w].redacted,
                            ![w].restoreRaised = TRUE]
    /\ UNCHANGED <<counter, counterTTL, mapStore, clean, everLog, epochStart, held, gw, inj>>

\* the caller hands the restored text back to the same restore function
RestoreAgain(w) ==
    /\ pc[w] = "restored"
    /\ ~call[w].restoreRaised
    /\ pc' = [pc EXCEPT ![w] = "again"]
    /\ LET c == call[w]
       IN call' = [call EXCEPT ![w].again = RestoreResult(c.via, c.restored, c.mapping, c.sid)]
    /\ UNCHANGED <<counter, counterTTL, mapStore, clean, everLog, epochStart, held, gw, inj>>

---------------------------------------------------------------------------
(* One caller redacting a text and restoring it (SpecText).  The Detector is
   the pluggable analyzer: any list of pairwise disjoint typed spans. *)

LiteralPlaceholder == "[CONFIDENTIAL_PERSON_1]"

TextAlphabet == {"a", "\n", LiteralPlaceholder}

RECURSIVE SeqsUpTo(_, _)
SeqsUpTo(S, n) ==
    IF n = 0 THEN {<<>>}
    ELSE SeqsUpTo(S, n - 1) \cup {Append(q, x) : q \in {r \in SeqsUpTo(S, n - 1) : Len(r) = n - 1}, x \in S}

TextInputs == SeqsUpTo(TextAlphabet, MaxLen)

\* every list of at most n pairwise disjoint spans of text[pos:], lowest start first
RECURSIVE SpanListsFrom(_, _, _)
SpanListsFrom(text, pos, n) ==
    IF n = 0 \/ pos >= Len(text) THEN {<<>>}
    ELSE {<<>>} \cup
         UNION {UNION {{<<[entity_type |-> t, start |-> a, end |-> b]>> \o rest :
                           t \in EntityTypes, rest \in SpanListsFrom(text, b, n - 1)} :
                       b \in (a + 1)..Len(text)} :
                a \in pos..(Len(text) - 1)}

SpanLists(text) == SpanListsFrom(text, 0, MaxSpans)

TextWorker == "w1"

TextSession == "s1"

TextCall ==
    /\ pc[TextWorker] = "idle"
    /\ \E text \in TextInputs : \E results \in SpanLists(text) :
          RedactBegin(TextWorker, TextSession, text, results)
    /\ UNCHANGED <<gw, inj>>

NextText ==
    \/ TextCall
    \/ StoreIncr(TextWorker)
    \/ StoreExpire(TextWorker)
    \/ StoreSetex(TextWorker)
    \/ StoreRaise(TextWorker)
    \/ (pc[TextWorker] \in {"redacted", "restored"}
           /\ \E key \in DOMAIN mapStore : ExpireMapping(key))
    \/ \E via \in RestoreVia : Restore(TextWorker, via)
    \/ \E via \in RestoreVia : RestoreRaise(TextWorker, via)
    \/ RestoreAgain(TextWorker)

SpecText == Init /\ [][NextText]_vars

---------------------------------------------------------------------------
(* Claims about redact-then-restore (SpecText) *)

Restored(w) == pc[w] = "restored" /\ ~call[w].restoreRaised

\* the value a call's mapping holds for a placeholder
ValueOf(mapping, placeholder) == mapping[DictGet(mapping, placeholder)][2]

\* text with every token that is a live placeholder of mapping replaced by its value
RECURSIVE Substituted(_, _, _)
Substituted(text, mapping, missed) ==
    IF text = <<>> THEN <<>>
    ELSE (IF Head(text) \in Keys(mapping) \ missed
          THEN ValueOf(mapping, Head(text))
          ELSE <<Head(text)>>) \o Substituted(Tail(text), mapping, missed)

IssuedPlaceholderInText(w) ==
    \E i \in 1..Len(call[w].text) : call[w].text[i] \in Keys(call[w].mapping)

C5_MissingLeftVerbatim ==
    \A w \in Workers :
        (Restored(w) /\ call[w].missed # {} /\ ~IssuedPlaceholderInText(w)) =>
            call[w].restored = Substituted(call[w].redacted, call[w].mapping, call[w].missed)

---------------------------------------------------------------------------
(* SecurityGuardrails: check_domain and check_prompt_injection *)

\* str.lower() on the words of the model
Lower(tok) ==
    CASE tok = "Ignore" -> "ignore"
      [] tok = "John" -> "john"
      [] tok = "Mary" -> "mary"
      [] OTHER -> tok

TextLower(text) == [i \in 1..Len(text) |-> Lower(text[i])]

\* pattern in text: pattern occurs as a contiguous run of text
Contains(text, pattern) ==
    \E k \in 0..(Len(text) - Len(pattern)) : SubSeq(text, k + 1, k + Len(pattern)) = pattern

\* check_prompt_injection(text): text is lower-cased, the patterns are used as configured
CheckPromptInjection(text, injection_patterns) ==
    LET text_lower == TextLower(text)
    IN \E i \in 1..Len(injection_patterns) : Contains(text_lower, injection_patterns[i])

\* the configuration disregarded: every host is allowed
CheckDomainAny(host, allowed_domains) == TRUE

\* check_domain(host)
CheckDomain(host, allowed_domains) == host \in allowed_domains

---------------------------------------------------------------------------
(* check_prompt_injection over texts and configured phrase lists (SpecInj) *)

InjAlphabet == {"ignore", "Ignore", "hi"}

InjTexts == SeqsUpTo(InjAlphabet, MaxLen)

InjPhrases == {<<a>> : a \in InjAlphabet} \cup {<<a, b>> : a, b \in InjAlphabet}

InjPatternLists == {<<p>> : p \in InjPhrases} \cup {<<p, q>> : p, q \in InjPhrases}

InjCall ==
    /\ ~inj.called
    /\ \E text \in InjTexts, patterns \in InjPatternLists :
          inj' = [called |-> TRUE, text |-> text, patterns |-> patterns,
                  result |-> CheckPromptInjection(text, patterns)]
    /\ UNCHANGED <<pc, call, counter, counterTTL, mapStore, clean, everLog, epochStart, held, gw>>

InjReturn ==
    /\ inj.called
    /\ inj' = NoInjCheck
    /\ UNCHANGED <<pc, call, counter, counterTTL, mapStore, clean, everLog, epochStart, held, gw>>

NextInj == InjCall \/ InjReturn

SpecInj == Init /\ [][NextInj]_vars

\* the same phrase whatever the letter case it is written in
SameIgnoringCase(a, b) == TextLower(a) = TextLower(b)

\* C9: check_prompt_injection reports a match exactly when some configured
\* phrase occurs in the text as a contiguous run, letter case ignored on both
\* sides, the phrases being written in any letter case.
C9_CaseInsensitiveMatch ==
    inj.called =>
        (inj.result <=>
            \E i \in 1..Len(inj.patterns) :
                \E k \in 0..(Len(inj.text) - Len(inj.patterns[i])) :
                    SameIgnoringCase(SubSeq(inj.text, k + 1, k + Len(inj.patterns[i])),
                                     inj.patterns[i]))

---------------------------------------------------------------------------
(* The gateway: proxy_request and extract_and_redact_content handling one
   request (Spec).  The model starts where proxy_request is invoked; the store
   starts empty and only this request writes to it. *)

\* config["allowed_domains"]
AllowedDomains == {"api.openai.com"}

\* the Host header: allowed, allowed but for a port, not allowed, empty
Hosts == {"api.openai.com", "api.openai.com:443", "evil.example", ""}

Methods == {"GET", "POST"}

\* config["security"]["prompt_injection_patterns"]
InjectionPatterns == <<<<"ignore">>>>

GwWorker == "w1"

\* request.client.host, the session id
GwSession == "s1"

MsgTexts == {<<"hi">>, <<"hi", "John">>, <<"j@x">>, <<"Ignore", "John">>}

StrMsg(t) == [role |-> "user", kind |-> "str", content |-> t, parts |-> <<>>]

PartsMsg(t) == [role |-> "user", kind |-> "parts", content |-> <<>>,
                parts |-> <<[type |-> "text", text |-> t], [type |-> "image_url", text |-> <<>>]>>]

Msgs == {StrMsg(t) : t \in MsgTexts} \cup {PartsMsg(t) : t \in MsgTexts}

MessageLists == {<<m>> : m \in Msgs} \cup {<<m, n>> : m, n \in Msgs}

JsonBody(shape) == [NoPayload EXCEPT !.ctype = "application/json", !.shape = shape, !.model = "gpt"]

\* valid JSON that json.loads accepts and the extraction code trips over: a
\* number, a document whose prompt is a number, one whose messages is a string
MistypedShapes == {"scalar", "badprompt", "badmessages"}

\* the request bodies: chat and prompt documents, other JSON, a JSON number, a
\* JSON array of strings, documents with a mistyped prompt or messages, plain
\* text, multipart forms with files and plain fields, and no body
Payloads ==
    {[JsonBody("chat") EXCEPT !.messages = ms] : ms \in MessageLists}
    \cup {[JsonBody("prompt") EXCEPT !.prompt = t] : t \in MsgTexts}
    \cup {JsonBody("other"), JsonBody("empty")}
    \cup {[JsonBody(shape) EXCEPT !.model = "", !.raw = <<"5">>] : shape \in MistypedShapes}
    \cup {[JsonBody("array") EXCEPT !.model = "", !.raw = <<"Ignore", "John">>]}
    \cup {[JsonBody("raw") EXCEPT !.model = "", !.raw = t] : t \in MsgTexts}
    \cup {[NoPayload EXCEPT !.ctype = "multipart/form-data", !.shape = "form",
                            !.files = fs, !.fields = fl] :
             fs \in {<<>>} \cup {<<t>> : t \in MsgTexts},
             fl \in {<<>>, <<<<"hi", "John">>>>}}

\* lines 119-127: the text of the messages, a newline after each piece
RECURSIVE PartsText(_)
PartsText(parts) ==
    IF parts = <<>> THEN <<>>
    ELSE (IF Head(parts).type = "text" THEN Head(parts).text \o <<"\n">> ELSE <<>>)
         \o PartsText(Tail(parts))

RECURSIVE MessagesText(_)
MessagesText(messages) ==
    IF messages = <<>> THEN <<>>
    ELSE (IF Head(messages).kind = "str" THEN Head(messages).content \o <<"\n">>
          ELSE PartsText(Head(messages).parts))
         \o MessagesText(Tail(messages))

\* lines 95-105: the decoded content of every file field, in order
RECURSIVE FilesText(_)
FilesText(files) ==
    IF files = <<>> THEN <<>> ELSE Head(files) \o FilesText(Tail(files))

\* extracted_text (multipart) or text_content (JSON and plain text)
ExtractText(payload) ==
    CASE payload.shape = "form" -> FilesText(payload.files)
      [] payload.shape = "chat" -> MessagesText(payload.messages)
      [] payload.shape = "prompt" -> payload.prompt
      [] payload.shape = "raw" -> payload.raw
      [] OTHER -> <<>>

\* the injection check disregarded
InjectionNeverBlocked(text) == FALSE

\* lines 134-135 and 153-154
InjectionBlocked(text) == CheckPromptInjection(text, InjectionPatterns)

\* lines 141-146: the document with the redacted text written back
UpdateJson(payload, redacted_text) ==
    CASE payload.shape = "chat" ->
            [payload EXCEPT !.messages =
                [i \in 1..Len(payload.messages) |->
                    IF payload.messages[i].kind = "str"
                    THEN [payload.messages[i] EXCEPT !.content = redacted_text]
                    ELSE payload.messages[i]]]
      [] payload.shape = "prompt" -> [payload EXCEPT !.prompt = redacted_text]
      [] OTHER -> payload

\* the first value extract_and_redact_content returns
RedactedContent(payload, redacted_text) ==
    IF payload.shape \in {"form", "raw"}
    THEN [kind |-> "text", json |-> NoPayload, text |-> redacted_text]
    ELSE [kind |-> "json", json |-> UpdateJson(payload, redacted_text), text |-> <<>>]

\* the request body as the client sent it
RequestBody(payload) == [kind |-> "request", json |-> payload, text |-> <<>>]

\* truth value of redacted_content: json.dumps never gives the empty string
Truthy(content) == content.kind = "json" \/ (content.kind = "text" /\ content.text # <<>>)

GwDone(status) == [gw EXCEPT !.stage = "done", !.status = status]

GwReceive ==
    /\ gw.stage = "idle"
    /\ \E host \in Hosts, method \in Methods, payload \in Payloads :
          gw' = [NoRequest EXCEPT !.stage = "received", !.host = host, !.method = method,
                                  !.payload = payload]
    /\ UNCHANGED <<pc, call, counter, counterTTL, mapStore, clean, everLog, epochStart, held, inj>>

\* lines 177-184
GwCheckHost ==
    /\ gw.stage = "received"
    /\ gw' = IF gw.host = "" THEN GwDone(400)
             ELSE IF ~CheckDomain(gw.host, AllowedDomains) THEN GwDone(403)
             ELSE [gw EXCEPT !.stage = "routed"]
    /\ UNCHANGED <<pc, call, counter, counterTTL, mapStore, clean, everLog, epochStart, held, inj>>

\* lines 191 and 86-159, up to the first store command of redact_text
GwExtract ==
    /\ gw.stage = "routed"
    /\ LET payload == gw.payload
           text == ExtractText(payload)
       IN CASE payload.shape = "form" ->
                 /\ gw' = [gw EXCEPT !.stage = "redacting", !.parsed = TRUE, !.extracted = text]
                 /\ \/ RedactBegin(GwWorker, GwSession, text, Analyze(text, EntityTypes))
                    \/ AnalyzeRaise(GwWorker, GwSession, text)
                 /\ UNCHANGED inj
            [] payload.shape = "empty" ->
                 /\ gw' = [gw EXCEPT !.stage = "ready"]
                 /\ UNCHANGED <<pc, call, counter, counterTTL, mapStore, clean, everLog,
                                epochStart, held, inj>>
            [] payload.shape \in MistypedShapes ->
                 \* TypeError / AttributeError, not json.JSONDecodeError: it leaves
                 \* extract_and_redact_content and proxy_request uncaught
                 /\ gw' = [GwDone(500) EXCEPT !.parsed = TRUE, !.error = "TypeError"]
                 /\ UNCHANGED <<pc, call, counter, counterTTL, mapStore, clean, everLog,
                                epochStart, held, inj>>
            [] OTHER ->
                 /\ inj' = [called |-> TRUE, text |-> text, patterns |-> InjectionPatterns,
                            result |-> InjectionBlocked(text)]
                 /\ IF InjectionBlocked(text)
                    THEN /\ gw' = [GwDone(400) EXCEPT !.parsed = TRUE, !.scanned = TRUE,
                                                      !.extracted = text]
                         /\ UNCHANGED <<pc, call, counter, counterTTL, mapStore, clean,
                                        everLog, epochStart, held>>
                    ELSE /\ gw' = [gw EXCEPT !.stage = "redacting", !.parsed = TRUE,
                                             !.scanned = TRUE, !.extracted = text]
                         /\ \/ RedactBegin(GwWorker, GwSession, text,
                                            Analyze(text, EntityTypes))
                            \/ AnalyzeRaise(GwWorker, GwSession, text)

\* lines 107-108, 140-148 and 156-157: redact_text has returned
GwReassemble ==
    /\ gw.stage = "redacting"
    /\ pc[GwWorker] = "redacted"
    /\ gw' = [gw EXCEPT !.stage = "ready",
                        !.content = RedactedContent(gw.payload, call[GwWorker].redacted),
                        !.mapping = call[GwWorker].mapping]
    /\ UNCHANGED <<pc, call, counter, counterTTL, mapStore, clean, everLog, epochStart, held, inj>>

\* what the upstream call raises: no connection, or the timeout of 30.0 s
UpstreamErrors == {"ConnectError", "ReadTimeout"}

\* the exceptions that are httpx.RequestError
RequestErrors == {"ConnectError", "ReadTimeout"}

\* every exception taken for an unexpected one
ErrorStatusInternal(error) == 500

\* lines 240-245: the status of the two except branches
ErrorStatus(error) == IF error \in RequestErrors THEN 502 ELSE 500

\* lines 201-217: the request goes upstream
GwForward ==
    /\ gw.stage = "ready"
    /\ gw' = [gw EXCEPT !.stage = "forwarded", !.sent = TRUE,
                        !.sentBody = IF gw.method = "GET" THEN NoContent
                                     ELSE IF Truthy(gw.content) THEN gw.content
                                     ELSE RequestBody(gw.payload)]
    /\ UNCHANGED <<pc, call, counter, counterTTL, mapStore, clean, everLog, epochStart, held, inj>>

\* line 215: request.body() after request.form() has read the stream; whether
\* the framework still has the body is not in this source, so it may raise
GwBodyGone ==
    /\ gw.stage = "ready"
    /\ gw.method # "GET"
    /\ ~Truthy(gw.content)
    /\ gw.payload.shape = "form"
    /\ gw' = [GwDone(ErrorStatus("RuntimeError")) EXCEPT !.error = "RuntimeError"]
    /\ UNCHANGED <<pc, call, counter, counterTTL, mapStore, clean, everLog, epochStart, held, inj>>

\* lines 240-242: the upstream call raises
GwUpstreamError ==
    /\ gw.stage = "forwarded"
    /\ \E error \in UpstreamErrors : gw' = [GwDone(ErrorStatus(error)) EXCEPT !.error = error]
    /\ UNCHANGED <<pc, call, counter, counterTTL, mapStore, clean, everLog, epochStart, held, inj>>

\* what upstream answers: nothing, or JSON or plain text that repeats the text it
\* was sent or says something else
Responses ==
    {NoContent} \cup
    {[kind |-> k, json |-> NoPayload, text |-> t] :
        k \in {"json", "text"}, t \in {call[GwWorker].redacted, <<"ok">>}}

GwUpstreamRespond ==
    /\ gw.stage = "forwarded"
    /\ \E response \in Responses : gw' = [gw EXCEPT !.stage = "responded", !.response = response]
    /\ UNCHANGED <<pc, call, counter, counterTTL, mapStore, clean, everLog, epochStart, held, inj>>

\* lines 219-238: PII is restored in the response, which is returned
GwRestore ==
    /\ gw.stage = "responded"
    /\ LET r == gw.response
       IN gw' = [GwDone(200) EXCEPT !.returned =
                    IF gw.mapping # <<>> /\ r.kind # "none"
                    THEN [r EXCEPT !.text =
                            IF r.kind = "json"
                            THEN RestorePii(FALSE, r.text, gw.mapping, GwSession)
                            ELSE RestorePiiText(r.text, gw.mapping, GwSession)]
                    ELSE r]
    /\ UNCHANGED <<pc, call, counter, counterTTL, mapStore, clean, everLog, epochStart, held, inj>>

Next ==
    \/ GwReceive
    \/ GwCheckHost
    \/ GwExtract
    \/ StoreIncr(GwWorker)
    \/ StoreExpire(GwWorker)
    \/ StoreSetex(GwWorker)
    \/ StoreRaise(GwWorker)
    \/ GwReassemble
    \/ GwForward
    \/ GwBodyGone
    \/ GwUpstreamError
    \/ GwUpstreamRespond
    \/ (gw.stage = "forwarded" /\ \E key \in DOMAIN mapStore : ExpireMapping(key))
    \/ GwRestore

Spec == Init /\ [][Next]_vars

---------------------------------------------------------------------------
(* Claims about the gateway (Spec) *)

\* no counter was incremented and no mapping stored since the store was empty
StoreUntouched ==
    /\ \A sid \in Sessions, t \in EntityTypes : counter[sid][t] = 0 /\ everLog[sid][t] = <<>>
    /\ DOMAIN mapStore = {}

\* every text a JSON document or a form carries
PayloadTexts(payload) ==
    {payload.messages[i].content : i \in 1..Len(payload.messages)}
    \cup UNION {{payload.messages[i].parts[j].text : j \in 1..Len(payload.messages[i].parts)} :
                   i \in 1..Len(payload.messages)}
    \cup {payload.prompt, payload.raw}
    \cup Range(payload.files) \cup Range(payload.fields)

\* every text of a body sent upstream
BodyTexts(content) ==
    CASE content.kind = "text" -> {content.text}
      [] content.kind \in {"json", "request"} -> PayloadTexts(content.json)
      [] OTHER -> {}

\* the slices the Detector reports in text
DetectedSlices(text) ==
    {Slice(text, r.start, r.end) : r \in Range(Analyze(text, EntityTypes))}

\* C1: the body of a forwarded request contains none of the slices the Detector
\* reported in the text extracted from that request, for every payload shape
\* and every outcome of the store commands of the redaction.
C1_NoDetectedSliceForwarded ==
    (gw.sent /\ ~call[GwWorker].analyzerRaised) =>
        \A slice \in DetectedSlices(gw.extracted) :
            \A t \in BodyTexts(gw.sentBody) : ~Contains(t, slice)

\* the request was received with a Host header outside the allowlist
HostNotAllowed == gw.stage # "idle" /\ gw.host \notin AllowedDomains

\* the request never got past the domain check
StoppedAtDomainCheck ==
    /\ gw.stage \in {"received", "done"}
    /\ ~gw.parsed
    /\ pc[GwWorker] = "idle"
    /\ StoreUntouched
    /\ ~gw.sent

\* C6 as stated: a request whose Host header is not a literal member of the
\* allowlist is answered 403; its body is not parsed, the Detector is not
\* called, no store key is written and no upstream call is made.
C6_NotAllowedIs403 ==
    HostNotAllowed => (StoppedAtDomainCheck /\ (gw.stage = "done" => gw.status = 403))

\* C6 amended: a request whose Host header is not a literal member of the
\* allowlist is answered 403 when the header is not empty and 400 when it is
\* empty or absent; in both cases the body is not parsed, the Detector is not
\* called, no store key is written and no upstream call is made.
C6_NotAllowedIsRejected ==
    HostNotAllowed =>
        /\ StoppedAtDomainCheck
        /\ gw.stage = "done" => gw.status = (IF gw.host = "" THEN 400 ELSE 403)

\* a request for a host that is the allowed one but for its port was answered 403
C6_Witness ==
    /\ gw.stage = "done"
    /\ gw.status = 403
    /\ gw.host = "api.openai.com:443"
    /\ gw.payload.shape = "chat"

\* C7: a request is forwarded only if the text extracted from it was scanned by
\* check_prompt_injection and matched no configured phrase, for every payload shape.
C7_ForwardedOnlyIfScannedClean ==
    (gw.sent /\ gw.extracted # <<>>) =>
        (gw.scanned /\ ~CheckPromptInjection(gw.extracted, InjectionPatterns))

\* the request passed the domain check with a JSON or plain-text body whose text
\* matches a configured injection pattern
InjectionInJsonOrText ==
    /\ gw.stage # "idle"
    /\ gw.host \in AllowedDomains
    /\ gw.payload.shape \in {"chat", "prompt", "raw"}
    /\ CheckPromptInjection(ExtractText(gw.payload), InjectionPatterns)

\* C8: when the text extracted from a JSON or plain-text body matches an
\* injection pattern the request is answered 400; redact_text is never entered,
\* so nothing is written to the store, and no upstream call is made.
C8_InjectionIs400 ==
    InjectionInJsonOrText =>
        /\ gw.stage \in {"received", "routed", "done"}
        /\ gw.stage = "done" => (gw.status = 400 /\ gw.scanned)
        /\ pc[GwWorker] = "idle"
        /\ StoreUntouched
        /\ ~gw.sent

\* a chat request that carries PII next to the injection phrase was answered 400
C8_Witness ==
    /\ InjectionInJsonOrText
    /\ gw.stage = "done"
    /\ gw.status = 400
    /\ gw.payload.shape = "chat"
    /\ DetectedSlices(gw.extracted) # {}

\* every message of the chat document has a plain string as content
AllStringMessages(payload) ==
    /\ payload.shape = "chat"
    /\ \A i \in 1..Len(payload.messages) : payload.messages[i].kind = "str"

\* redacted is original with every detected slice, and nothing else, replaced by
\* a placeholder of the mapping that stands for that slice
RedactedFormOf(redacted, original, mapping) ==
    /\ Len(redacted) = Len(original)
    /\ \A k \in 1..Len(original) :
          IF <<original[k]>> \in DetectedSlices(original)
          THEN /\ redacted[k] \in Keys(mapping)
               /\ ValueOf(mapping, redacted[k]) = <<original[k]>>
          ELSE redacted[k] = original[k]

\* C10: for a chat document whose messages all have string content, the document
\* forwarded differs from the one received only in the content fields, and each
\* message's content is the redacted form of that message's own content.
C10_EachMessageItsOwnRedaction ==
    (gw.sent /\ gw.method # "GET" /\ AllStringMessages(gw.payload) /\ ~call[GwWorker].raised) =>
        /\ gw.sentBody.kind = "json"
        /\ Len(gw.sentBody.json.messages) = Len(gw.payload.messages)
        /\ \A i \in 1..Len(gw.payload.messages) :
              RedactedFormOf(gw.sentBody.json.messages[i].content,
                             gw.payload.messages[i].content, gw.mapping)
        /\ gw.sentBody.json =
              [gw.payload EXCEPT !.messages =
                  [i \in 1..Len(gw.payload.messages) |->
                      [gw.payload.messages[i] EXCEPT
                          !.content = gw.sentBody.json.messages[i].content]]]

\* C11: for a chat message whose content is a list of typed parts, the forwarded
\* message carries, in every part of type text, the redacted form of that part's
\* text, and every other part unchanged.
C11_TextPartsRedacted ==
    (gw.sent /\ gw.method # "GET" /\ gw.payload.shape = "chat" /\ ~call[GwWorker].raised) =>
        /\ gw.sentBody.kind = "json"
        /\ Len(gw.sentBody.json.messages) = Len(gw.payload.messages)
        /\ \A i \in 1..Len(gw.payload.messages) :
              LET received == gw.payload.messages[i]
                  forwarded == gw.sentBody.json.messages[i]
              IN received.kind = "parts" =>
                    /\ forwarded.kind = "parts"
                    /\ Len(forwarded.parts) = Len(received.parts)
                    /\ \A j \in 1..Len(received.parts) :
                          IF received.parts[j].type = "text"
                          THEN /\ forwarded.parts[j].type = "text"
                               /\ RedactedFormOf(forwarded.parts[j].text,
                                                 received.parts[j].text, gw.mapping)
                          ELSE forwarded.parts[j] = received.parts[j]

\* redact_text has returned from its loop, no store command having raised
ReturnedNormally(w) == pc[w] \in {"redacted", "restored", "again"} /\ ~call[w].raised

\* C12: a redact_text call on a text with N pairwise disjoint detected spans
\* returns a mapping of exactly N entries under N pairwise distinct placeholders,
\* also when spans have the same entity type or the same text.
C12_OneEntryPerSpan ==
    \A w \in Workers :
        ReturnedNormally(w) =>
            /\ Len(call[w].mapping) = Len(call[w].results)
            /\ Cardinality(Keys(call[w].mapping)) = Len(call[w].results)

\* two spans of one entity type over equal slices got two placeholders
C12_Witness ==
    LET c == call[TextWorker]
    IN /\ ReturnedNormally(TextWorker)
       /\ Len(c.results) = 2
       /\ c.results[1].entity_type = c.results[2].entity_type
       /\ Slice(c.text, c.results[1].start, c.results[1].end)
            = Slice(c.text, c.results[2].start, c.results[2].end)
       /\ Cardinality(Keys(c.mapping)) = 2

\* the text is empty or consists of whitespace only
Blank(text) == \A i \in 1..Len(text) : text[i] \in {" ", "\n", "\t"}

\* no store command has been carried out since the store was empty
NoStoreOperation ==
    /\ StoreUntouched
    /\ \A sid \in Sessions, t \in EntityTypes : ~counterTTL[sid][t]

\* C13: redact_text on an empty or whitespace-only text returns the text
\* unchanged with an empty mapping and carries out no store command: no counter
\* incremented, no mapping stored, no TTL set.
C13_BlankIsNoOp ==
    (pc[TextWorker] # "idle" /\ Blank(call[TextWorker].text)) =>
        /\ pc[TextWorker] \in {"redacted", "restored", "again"}
        /\ call[TextWorker].redacted = call[TextWorker].text
        /\ call[TextWorker].mapping = <<>>
        /\ ~call[TextWorker].raised
        /\ NoStoreOperation

\* a call on a text of two newlines has returned
C13_Witness ==
    /\ pc[TextWorker] = "redacted"
    /\ call[TextWorker].text = <<"\n", "\n">>
    /\ call[TextWorker].redacted = <<"\n", "\n">>

\* C14: when the upstream call fails with a network error or a timeout the
\* request is answered 502, and that step leaves the store as it was: every
\* counter and every mapping written while redacting the request stays stored.
C14_UpstreamFailureIs502 ==
    [][(gw.stage = "forwarded" /\ gw'.stage = "done") =>
          /\ gw'.error \in UpstreamErrors
          /\ gw'.status = 502
          /\ UNCHANGED <<counter, counterTTL, mapStore>>
          /\ \A key \in DOMAIN mapStore : key \in DOMAIN mapStore' /\ mapStore'[key] = mapStore[key]]_vars

\* a request whose redaction stored two mappings was answered 502 after a
\* timeout, and both mappings are in the store with the values they stand for
C14_Witness ==
    /\ gw.stage = "done"
    /\ gw.status = 502
    /\ gw.error = "ReadTimeout"
    /\ Len(gw.mapping) = 2
    /\ \A ph \in Keys(gw.mapping) : StoreGet(GwSession, ph) = ValueOf(gw.mapping, ph)

\* a body that is not a chat or prompt document: invalid JSON, JSON that is not
\* an object, or an object whose messages or prompt is mistyped
Unrecognized(payload) == payload.shape \in {"raw", "array"} \cup MistypedShapes

\* C15: for an unrecognized body extraction falls back to raw-text handling (the
\* text of the body is what gets scanned for injection and redacted) and the
\* request is not ended with an error by extraction.
C15_FallsBackToRawText ==
    (gw.stage \notin {"idle", "received", "routed"} /\ gw.host \in AllowedDomains
        /\ Unrecognized(gw.payload)) =>
        /\ gw.scanned
        /\ gw.extracted = gw.payload.raw
        /\ gw.error \notin {"TypeError"}

\* C16: restore_pii on a JSON document gives back the document with every
\* placeholder that has a live mapping replaced, inside the string, by the stored
\* value and nothing else changed, for every stored value, those that need JSON
\* escaping included.
C16_JsonRestoredWhateverTheValue ==
    \A w \in Workers :
        (Restored(w) /\ call[w].via = "restore_pii_json" /\ ~IssuedPlaceholderInText(w)) =>
            call[w].restored = Substituted(call[w].redacted, call[w].mapping, call[w].missed)

\* the text handed back by a restore was restored a second time
RestoredTwice(w) == pc[w] = "again"

\* C17: restoring a text that a restore produced, with the same session and
\* mapping, returns it unchanged, for any text.
C17_RestoreTwice ==
    \A w \in Workers : RestoredTwice(w) => call[w].again = call[w].restored

---------------------------------------------------------------------------
(* Two sessions, one id a prefix of the other up to a ':', redacting,
   restoring and being cleaned up side by side (SpecIso) *)

\* the session each process works for
IsoSession == [w \in Workers |-> IF w = "w1" THEN "s1" ELSE "s1:x"]

IsoTexts == {<<"John">>, <<"hi", "j@x">>}

IsoCall(w) ==
    /\ pc[w] = "idle"
    /\ \E text \in IsoTexts : RedactBegin(w, IsoSession[w], text, Analyze(text, EntityTypes))
    /\ UNCHANGED <<gw, inj>>

\* the caller is done with the redacted or the restored text
IsoReturn(w) ==
    /\ pc[w] \in {"redacted", "restored"}
    /\ pc' = [pc EXCEPT ![w] = "idle"]
    /\ call' = [call EXCEPT ![w] = NoCall]
    /\ held' = [held EXCEPT ![w] = {}]
    /\ UNCHANGED <<counter, counterTTL, mapStore, clean, everLog, epochStart, gw, inj>>

NextIso ==
    \/ \E w \in Workers : IsoCall(w)
    \/ \E w \in Workers : StoreIncr(w)
    \/ \E w \in Workers : StoreExpire(w)
    \/ \E w \in Workers : StoreSetex(w)
    \/ \E w \in Workers : \E via \in RestoreVia : Restore(w, via)
    \/ \E w \in Workers : IsoReturn(w)
    \/ \E sid \in Sessions : CleanupKeys(sid)
    \/ CleanupDelete
    \/ CleanupRaise

SpecIso == Init /\ [][NextIso]_vars

\* the keys of a session: its counters, their TTLs, its mappings
SessionKeys(sid) ==
    <<counter[sid], counterTTL[sid],
      [k \in {m \in DOMAIN mapStore : m[1] = sid} |-> mapStore[k]]>>

\* the sessions a step works for: those of the calls that move, and the one
\* cleanup_session was called with
Acting ==
    {call[w].sid : w \in {v \in Workers : pc'[v] # pc[v] \/ call'[v] # call[v]}}
    \cup {call'[w].sid : w \in {v \in Workers : pc'[v] # pc[v] \/ call'[v] # call[v]}}
    \cup (IF clean' # clean THEN {clean.sid, clean'.sid} ELSE {})

\* C18: redact_text, restore_pii / restore_pii_text and cleanup_session called
\* for a session read, write and delete keys of that session only: the counters
\* and mappings of every other session are unchanged by the step, key names of
\* different sessions never coincide, ids containing ':' included.
C18_SessionsIsolated ==
    [][\A sid \in Sessions : sid \notin Acting => SessionKeys(sid)' = SessionKeys(sid)]_vars

\* the keys a session has in the store
KeysOf(sid) ==
    {CountKey(sid, t) : t \in {u \in EntityTypes : counter[sid][u] # 0}}
    \cup {MappingKey(k[1], k[2]) : k \in {m \in DOMAIN mapStore : m[1] = sid}}

\* C19: when cleanup_session(session_id) returns after its DEL, the store holds
\* no counter key and no mapping key of that session, also when redact_text
\* calls for the same session run at the same time.
C19_CleanupLeavesNoKey ==
    [][\A sid \in Sessions :
          (clean.pc = "delete" /\ clean.sid = sid /\ clean'.pc = "idle" /\ ~clean'.raised)
              => KeysOf(sid)' = {}]_vars

\* the Detector raised while analysing the text of the request
DetectorFailed == gw.stage # "idle" /\ call[GwWorker].analyzerRaised

\* C20: when the Detector fails during analysis redact_text returns the text
\* unchanged with an empty mapping and no store command, and the request is not
\* failed: it is forwarded with that text and the upstream response is returned.
C20_DetectorFailureIsPassThrough ==
    DetectorFailed =>
        /\ call[GwWorker].redacted = call[GwWorker].text
        /\ call[GwWorker].mapping = <<>>
        /\ NoStoreOperation
        /\ gw.stage \in {"redacting", "ready", "forwarded", "responded", "done"}
        /\ gw.stage \in {"ready", "forwarded", "responded", "done"} =>
              (gw.content = RedactedContent(gw.payload, gw.extracted) /\ gw.mapping = <<>>)
        /\ gw.stage = "done" =>
              /\ gw.sent
              /\ \/ gw.status = 200 /\ gw.returned = gw.response
                 \/ gw.status = 502 /\ gw.error \in UpstreamErrors

\* a request whose text holds PII was forwarded unredacted after the Detector
\* failed, and the upstream response came back to the client
C20_Witness ==
    /\ DetectorFailed
    /\ DetectedSlices(gw.extracted) # {}
    /\ gw.stage = "done"
    /\ gw.status = 200
    /\ gw.method = "POST"
    /\ gw.returned = gw.response
    /\ gw.response.kind = "json"

---------------------------------------------------------------------------
(* The gateway with its scheduling (SpecLive): a handler that can take a step
   takes one.  Store commands return or raise, and the upstream await ends with
   a response or, at the latest when the timeout of 30.0 s expires, with an
   httpx.RequestError. *)

HandlerStep ==
    \/ GwCheckHost
    \/ GwExtract
    \/ StoreIncr(GwWorker)
    \/ StoreExpire(GwWorker)
    \/ StoreSetex(GwWorker)
    \/ StoreRaise(GwWorker)
    \/ GwReassemble
    \/ GwForward
    \/ GwBodyGone
    \/ GwUpstreamError
    \/ GwUpstreamRespond
    \/ GwRestore

SpecLive == Init /\ [][Next]_vars /\ WF_vars(HandlerStep)

\* the request is past the domain check and the injection check
PassedChecks == gw.stage \in {"redacting", "ready", "forwarded", "responded"}

BothChecksPassed ==
    /\ gw.host \in AllowedDomains
    /\ gw.scanned
    /\ inj.called /\ ~inj.result

\* C22: the stages follow in the order domain check, extraction, injection
\* check, redaction, forwarding, response, restoration, return: no store write
\* before both checks passed, no upstream call before redaction finished, no
\* response returned before the restoration step, and the only exits are 403 on
\* the domain, 400 on injection and 502 on a forwarding error.
C22_StagesInOrder ==
    /\ ~StoreUntouched => BothChecksPassed
    /\ pc[GwWorker] # "idle" => BothChecksPassed
    /\ gw.sent => (gw.host \in AllowedDomains /\ gw.stage \in {"forwarded", "responded", "done"}
                   /\ pc[GwWorker] \in {"idle", "redacted"})
    /\ gw.stage = "done" =>
          \/ gw.status = 403 /\ gw.host \notin AllowedDomains /\ ~gw.parsed /\ ~gw.sent
          \/ gw.status = 400 /\ gw.host \in AllowedDomains /\ gw.scanned /\ inj.result /\ ~gw.sent
          \/ gw.status = 502 /\ gw.sent /\ gw.error \in UpstreamErrors
          \/ gw.status = 200 /\ gw.sent /\ gw.returned.kind = gw.response.kind

\* the spans of a set, lowest start first
RECURSIVE AscendingByStart(_)
AscendingByStart(spans) ==
    IF spans = {} THEN <<>>
    ELSE LET first == CHOOSE r \in spans : \A q \in spans : r.start <= q.start
         IN <<first>> \o AscendingByStart(spans \ {first})

\* text[pos:] with the k-th and later spans of asc replaced by phs[k], ...
RECURSIVE SplicedFrom(_, _, _, _, _)
SplicedFrom(text, pos, asc, phs, k) ==
    IF k > Len(asc) THEN SliceFrom(text, pos)
    ELSE Slice(text, pos, asc[k].start) \o <<phs[k]>>
            \o SplicedFrom(text, asc[k].end, asc, phs, k + 1)

\* C23: for pairwise disjoint spans the redacted text is the original text with
\* each span replaced by its placeholder, everything outside the spans kept in
\* order, and the mapping maps each placeholder to the original slice of its span.
C23_SpansReplacedInPlace ==
    \A w \in Workers :
        ReturnedNormally(w) =>
            LET c == call[w]
                asc == AscendingByStart(Range(c.results))
            IN \E phs \in [1..Len(asc) -> Keys(c.mapping)] :
                  /\ \A j, k \in 1..Len(asc) : j # k => phs[j] # phs[k]
                  /\ c.redacted = SplicedFrom(c.text, 0, asc, phs, 1)
                  /\ \A k \in 1..Len(asc) :
                        /\ ValueOf(c.mapping, phs[k]) = Slice(c.text, asc[k].start, asc[k].end)
                        /\ phs[k] \in {Placeholder(asc[k].entity_type, n) : n \in 1..MaxIncr}

\* two spans, the first two tokens long, were replaced from the right
C23_Witness ==
    LET c == call[TextWorker]
    IN /\ ReturnedNormally(TextWorker)
       /\ Len(c.text) = 3
       /\ Len(c.results) = 2
       /\ c.results[2].start = 0 /\ c.results[2].end = 2
       /\ Len(c.redacted) = 2
       /\ Len(c.mapping) = 2

\* C24: every counter allocation refreshes the counter key's TTL and every
\* mapping write sets one, so in every reachable state, between two store
\* commands of one allocation included, no counter key exists without a TTL
\* (mapping keys are written by SETEX only and always carry one).
C24_NoKeyWithoutTTL ==
    \A sid \in Sessions, t \in EntityTypes : counter[sid][t] # 0 => counterTTL[sid][t]

---------------------------------------------------------------------------
(* redact_text on what a Detector may report: spans that overlap included
   (SpecOverlap). BasicPIIDetector appends the matches of every pattern to one
   list, so the match of one pattern may lie inside or across that of another *)

OverlapTexts == {<<"a", "b">>, <<"a", "b", "c">>}

\* every span of text: an entity type over a non-empty range of offsets
SpansOf(text) ==
    {r \in [entity_type : EntityTypes, start : 0..(Len(text) - 1), end : 1..Len(text)] :
        r.start < r.end}

\* the lists of at most MaxSpans spans of text, in any order
AnySpanLists(text) ==
    SeqsUpTo(SpansOf(text), MaxSpans)

OverlapCall ==
    /\ pc[TextWorker] = "idle"
    /\ \E text \in OverlapTexts : \E results \in AnySpanLists(text) :
          RedactBegin(TextWorker, TextSession, text, results)
    /\ UNCHANGED <<gw, inj>>

NextOverlap ==
    \/ OverlapCall
    \/ StoreIncr(TextWorker)
    \/ StoreExpire(TextWorker)
    \/ StoreSetex(TextWorker)

SpecOverlap == Init /\ [][NextOverlap]_vars

Disjoint(r, q) == r.end <= q.start \/ q.end <= r.start

\* the tokens of text that are placeholders of mapping
PlaceholdersIn(text, mapping) == {i \in 1..Len(text) : text[i] \in Keys(mapping)}

\* C25: the spans redact_text splices are pairwise non-overlapping, overlapping
\* spans reported by the Detector being resolved before any replacement, so no
\* replacement cuts into a placeholder already inserted: every placeholder of
\* the returned mapping stands in the returned text.
C25_SplicedSpansDisjoint ==
    \A w \in Workers :
        LET c == call[w]
        IN /\ pc[w] \in Redacting =>
                \A j, k \in 1..Len(c.results) : j # k => Disjoint(c.results[j], c.results[k])
           /\ ReturnedNormally(w) =>
                Cardinality(PlaceholdersIn(c.redacted, c.mapping)) = Len(c.mapping)

---------------------------------------------------------------------------
(* BasicPIIDetector.analyze called with a text and a list of requested
   entity types (SpecDet) *)

DetAlphabet == {"hi", "John", "j@x"}

DetTexts == SeqsUpTo(DetAlphabet, MaxLen)

\* the requested lists, as the sets of their members; {} is the empty list
DetEntities == SUBSET EntityTypes

DetCall(w) ==
    /\ pc[w] = "idle"
    /\ \E text \in DetTexts, entities \in DetEntities :
          call' = [call EXCEPT ![w] = [NoCall EXCEPT !.text = text, !.entities = entities,
                                                     !.results = Analyze(text, entities)]]
    /\ pc' = [pc EXCEPT ![w] = "analyzed"]
    /\ UNCHANGED <<counter, counterTTL, mapStore, clean, everLog, epochStart, held, gw, inj>>

DetReturn(w) ==
    /\ pc[w] = "analyzed"
    /\ pc' = [pc EXCEPT ![w] = "idle"]
    /\ call' = [call EXCEPT ![w] = NoCall]
    /\ UNCHANGED <<counter, counterTTL, mapStore, clean, everLog, epochStart, held, gw, inj>>

NextDet == DetCall(TextWorker) \/ DetReturn(TextWorker)

SpecDet == Init /\ [][NextDet]_vars

\* C26: BasicPIIDetector.analyze(text, entities) returns only spans whose
\* entity_type is a member of the requested list, for every requested list,
\* the empty list included.
C26_OnlyRequestedTypes ==
    \A w \in Workers :
        pc[w] = "analyzed" =>
            \A k \in 1..Len(call[w].results) :
                call[w].results[k].entity_type \in call[w].entities

\* C27: within a session a stored placeholder is never rebound: while the
\* mapping placeholder -> v is in the store no step stores the same placeholder
\* with a different value, under every interleaving of redact_text calls and
\* TTL expiry of counter keys and mapping keys.
C27_NeverRebound ==
    [][\A key \in DOMAIN mapStore :
          key \in DOMAIN mapStore' => mapStore'[key] = mapStore[key]]_vars

\* redact_text has returned an empty mapping
ReturnedEmptyMapping(w) == pc[w] = "redacted" /\ call[w].mapping = <<>>

\* C28: a redact_text call that returns an empty mapping (empty input, no span,
\* or an exception caught partway through) has left the store as it was before
\* the call, here empty: no counter it incremented and no mapping it stored remains.
C28_EmptyMappingLeavesNoTrace ==
    ReturnedEmptyMapping(TextWorker) =>
        /\ \A sid \in Sessions, t \in EntityTypes : counter[sid][t] = 0
        /\ DOMAIN mapStore = {}

\* a chat or prompt document in whose text the Detector reports no span
NoSpanDocument(payload) ==
    /\ payload.shape \in {"chat", "prompt"}
    /\ Analyze(ExtractText(payload), EntityTypes) = <<>>

\* C29: when the Detector reports no span for the text of a chat or prompt
\* document, the payload forwarded upstream is equal, as JSON, to the payload
\* received: every message content and every other field unchanged.
C29_NoSpanForwardedUnchanged ==
    (gw.sent /\ gw.method # "GET" /\ NoSpanDocument(gw.payload)) =>
        /\ gw.sentBody.kind = "json"
        /\ gw.sentBody.json = gw.payload

\* text carries the redacted form of field as a contiguous run
CoversField(text, field, mapping) ==
    \E k \in 0..(Len(text) - Len(field)) :
        RedactedFormOf(SubSeq(text, k + 1, k + Len(field)), field, mapping)

\* C30: the raw inbound body is never forwarded unprocessed: for every non-GET
\* request with a non-empty body, multipart requests with plain form fields
\* included, the body sent upstream is the output of extract_and_redact_content
\* and covers the text of every form field, not the bytes the client sent.
C30_RawBodyNeverForwarded ==
    (gw.sent /\ gw.method # "GET" /\ gw.payload.shape # "empty") =>
        /\ gw.sentBody.kind # "request"
        /\ gw.sentBody = gw.content
        /\ gw.payload.shape = "form" =>
              \A j \in 1..Len(gw.payload.fields) :
                  CoversField(gw.sentBody.text, gw.payload.fields[j], gw.mapping)

=============================================================================
